---- MODULE Spec2Model ----
(***************************************************************************)
(* A model of the zdx-world link dashboard: the Express server of          *)
(* src/app.js (request pipeline, Card Store, Log Writer, Log Reader) and   *)
(* the one-shot GitHub synchronisation script of src/sync.js, and the      *)
(* browser scripts of the dashboard and of the log viewer that             *)
(* src/build.sh writes to public/.                                         *)
(*                                                                         *)
(* Text is modelled as a sequence of chunks (short strings): a JSON text   *)
(* is the sequence of its lexical tokens, a URL or file name the sequence  *)
(* of the pieces the code tests for ("access-", ".log", "%2F", ...).       *)
(* The clock counts seconds since the epoch (Date.now() / 1000).           *)
(***************************************************************************)
EXTENDS Integers, Sequences, FiniteSets, TLC

VARIABLES
  now,          \* Date.now(), in seconds
  dataFile,     \* DATA_FILE (data.json): [st, text]
  logFiles,     \* files written under LOG_DIR: path -> sequence of lines
  pending,      \* fs.readFile calls whose callback has not run yet
  last,         \* the request answered most recently, with what happened to it
  lastReplace,  \* the Card sequence of the latest POST /api/cards that touched DATA_FILE
  served,       \* number of requests received so far
  spc,          \* sync.js: position of the script
  remote,       \* the remote data.json: [exists, content]
  getResp,      \* sync.js: the response to the metadata GET of this run
  putReq,       \* sync.js: the PUT of this run, as the remote saw it
  exitCode,     \* sync.js: how the process ended
  runs,         \* number of times sync.js was started
  edits,        \* number of edits other parties made to the remote document
  sess,         \* dashboard: one browser session per tab, [pc, op, id, dom, loaded, posted]:
                \* the cards on the page, what the running handler fetched and what it sent
  viewer        \* log viewer: rawLogData, currentFilterIp, ipStats, topIpList, logContent

serverVars == <<now, dataFile, logFiles, pending, last, lastReplace, served>>
syncVars == <<spc, remote, getResp, putReq, exitCode, runs, edits>>
clientVars == <<sess, viewer>>
vars == <<now, dataFile, logFiles, pending, last, lastReplace, served,
          spc, remote, getResp, putReq, exitCode, runs, edits, sess, viewer>>

----------------------------------------------------------------------------
(* Bounds *)

MaxCards == 1        \* longest Card sequence a client posts
MaxId == 2           \* largest card id a client posts
MaxNameLen == 2      \* longest :filename, in chunks
MaxRequests == 2     \* requests per behaviour
MaxLogRequests == 1  \* requests for a log file per behaviour
MaxTicks == 1        \* seconds the clock may advance
ClockStart == 1704815999   \* 2024-01-09 23:59:59 at UTC+8
MaxDashRequests == 3 \* requests the dashboard sessions send per behaviour
MaxEditRequests == 4 \* requests two sessions send when each edits through a click handler
MaxOldEntries == 2   \* entries the log directory holds at start
MaxLines == 2        \* lines of the log texts the viewer is given, the named texts aside

----------------------------------------------------------------------------
(* JSON values, JSON.stringify and JSON.parse *)

JNull == [t |-> "null"]
JBool(b) == [t |-> "bool", b |-> b]
JNum(n) == [t |-> "num", n |-> n]
JStr(s) == [t |-> "str", s |-> s]
JArr(a) == [t |-> "arr", a |-> a]
JObj(k, v) == [t |-> "obj", k |-> k, v |-> v]

\* a string literal: quote, content (escaped when it is a quote or a backslash), quote
StringLiteral(s) ==
  IF s = "" THEN <<"\"", "\"">>
  ELSE IF s \in {"\"", "\\"} THEN <<"\"", "\\", s, "\"">>
  ELSE <<"\"", s, "\"">>

\* the line break and indentation JSON.stringify(v, null, 2) inserts
Indent(pretty) == IF pretty THEN <<"ws">> ELSE <<>>
Colon(pretty) == IF pretty THEN <<":", "ws">> ELSE <<":">>

RECURSIVE JSONstringify(_, _)
RECURSIVE StringifyItems(_, _, _)
RECURSIVE StringifyMembers(_, _, _, _)

StringifyItems(a, i, pretty) ==
  IF i > Len(a) THEN <<>>
  ELSE Indent(pretty) \o JSONstringify(a[i], pretty)
       \o (IF i < Len(a) THEN <<",">> ELSE <<>>)
       \o StringifyItems(a, i + 1, pretty)

StringifyMembers(k, v, i, pretty) ==
  IF i > Len(k) THEN <<>>
  ELSE Indent(pretty) \o StringLiteral(k[i]) \o Colon(pretty) \o JSONstringify(v[i], pretty)
       \o (IF i < Len(k) THEN <<",">> ELSE <<>>)
       \o StringifyMembers(k, v, i + 1, pretty)

JSONstringify(val, pretty) ==
  CASE val.t = "null" -> <<"null">>
    [] val.t = "bool" -> IF val.b THEN <<"true">> ELSE <<"false">>
    [] val.t = "num" -> <<ToString(val.n)>>
    [] val.t = "str" -> StringLiteral(val.s)
    [] val.t = "arr" ->
         IF val.a = <<>> THEN <<"[", "]">>
         ELSE <<"[">> \o StringifyItems(val.a, 1, pretty) \o Indent(pretty) \o <<"]">>
    [] val.t = "obj" ->
         IF val.k = <<>> THEN <<"{", "}">>
         ELSE <<"{">> \o StringifyMembers(val.k, val.v, 1, pretty) \o Indent(pretty) \o <<"}">>

ParseFail == [ok |-> FALSE]
ParseOk(val, next) == [ok |-> TRUE, val |-> val, next |-> next]
TokAt(ts, i) == IF i <= Len(ts) THEN ts[i] ELSE "EOF"
\* the number literals the lexer knows
Numbers == 0..(MaxId + 1) \cup {404} \cup 1..(3 + MaxDashRequests)
IsNumTok(tok) == \E n \in Numbers : ToString(n) = tok
NumOf(tok) == CHOOSE n \in Numbers : ToString(n) = tok
Punct == {"[", "]", "{", "}", ":", ",", "\"", "\\", "EOF"}

ParseString(ts, i) ==
  IF TokAt(ts, i) # "\"" THEN ParseFail
  ELSE IF TokAt(ts, i + 1) = "\"" THEN ParseOk(JStr(""), i + 2)
  ELSE IF TokAt(ts, i + 1) = "\\"
    THEN IF TokAt(ts, i + 2) \in {"\"", "\\"} /\ TokAt(ts, i + 3) = "\""
         THEN ParseOk(JStr(TokAt(ts, i + 2)), i + 4) ELSE ParseFail
  ELSE IF TokAt(ts, i + 1) \notin Punct /\ TokAt(ts, i + 2) = "\""
    THEN ParseOk(JStr(TokAt(ts, i + 1)), i + 3)
  ELSE ParseFail

RECURSIVE ParseValue(_, _)
RECURSIVE ParseItems(_, _, _)
RECURSIVE ParseMembers(_, _, _, _)

ParseItems(ts, i, acc) ==
  LET After(r) ==
        IF ~r.ok THEN ParseFail
        ELSE IF TokAt(ts, r.next) = "," THEN ParseItems(ts, r.next + 1, Append(acc, r.val))
        ELSE IF TokAt(ts, r.next) = "]" THEN ParseOk(JArr(Append(acc, r.val)), r.next + 1)
        ELSE ParseFail
  IN After(ParseValue(ts, i))

ParseMembers(ts, i, ks, vs) ==
  LET AfterValue(key, r) ==
        IF ~r.ok THEN ParseFail
        ELSE IF TokAt(ts, r.next) = ","
          THEN ParseMembers(ts, r.next + 1, Append(ks, key.val.s), Append(vs, r.val))
        ELSE IF TokAt(ts, r.next) = "}"
          THEN ParseOk(JObj(Append(ks, key.val.s), Append(vs, r.val)), r.next + 1)
        ELSE ParseFail
      AfterKey(key) ==
        IF ~key.ok THEN ParseFail
        ELSE IF TokAt(ts, key.next) # ":" THEN ParseFail
        ELSE AfterValue(key, ParseValue(ts, key.next + 1))
  IN AfterKey(ParseString(ts, i))

ParseValue(ts, i) ==
  LET tok == TokAt(ts, i) IN
  IF tok = "null" THEN ParseOk(JNull, i + 1)
  ELSE IF tok = "true" THEN ParseOk(JBool(TRUE), i + 1)
  ELSE IF tok = "false" THEN ParseOk(JBool(FALSE), i + 1)
  ELSE IF IsNumTok(tok) THEN ParseOk(JNum(NumOf(tok)), i + 1)
  ELSE IF tok = "\"" THEN ParseString(ts, i)
  ELSE IF tok = "["
    THEN IF TokAt(ts, i + 1) = "]" THEN ParseOk(JArr(<<>>), i + 2) ELSE ParseItems(ts, i + 1, <<>>)
  ELSE IF tok = "{"
    THEN IF TokAt(ts, i + 1) = "}" THEN ParseOk(JObj(<<>>, <<>>), i + 2)
         ELSE ParseMembers(ts, i + 1, <<>>, <<>>)
  ELSE ParseFail

\* JSON.parse(text): [ok |-> FALSE] stands for the SyntaxError it throws
JSONparse(text) ==
  LET Whole(ts, r) ==
        IF r.ok /\ r.next = Len(ts) + 1 THEN [ok |-> TRUE, val |-> r.val] ELSE ParseFail
      Tokens(ts) == Whole(ts, ParseValue(ts, 1))
  IN Tokens(SelectSeq(text, LAMBDA c : c # "ws"))

----------------------------------------------------------------------------
(* The clock and the two date formats *)

OFFSET == 8 * 60 * 60     \* offset (in seconds): UTC+8

\* new Date(secs).getUTCFullYear() / getUTCMonth() + 1 / getUTCDate() / getUTCHours() ...
UTCFields(secs) ==
  LET Fields(y, m, d, sod) ==
        [year |-> y, month |-> m, day |-> d,
         hours |-> sod \div 3600, minutes |-> (sod % 3600) \div 60, seconds |-> sod % 60]
      FromMonth(era, yoe, doy, mp, m, sod) ==
        Fields(yoe + era * 400 + (IF m <= 2 THEN 1 ELSE 0), m,
               doy - (153 * mp + 2) \div 5 + 1, sod)
      FromMp(era, yoe, doy, mp, sod) ==
        FromMonth(era, yoe, doy, mp, IF mp < 10 THEN mp + 3 ELSE mp - 9, sod)
      FromDoy(era, yoe, doy, sod) == FromMp(era, yoe, doy, (5 * doy + 2) \div 153, sod)
      FromYoe(era, doe, yoe, sod) ==
        FromDoy(era, yoe, doe - (365 * yoe + yoe \div 4 - yoe \div 100), sod)
      FromDoe(era, doe, sod) ==
        FromYoe(era, doe,
                (doe - doe \div 1460 + doe \div 36524 - doe \div 146096) \div 365, sod)
      FromEra(z, era, sod) == FromDoe(era, z - era * 146097, sod)
      FromDays(z, sod) == FromEra(z, z \div 146097, sod)
  IN FromDays((secs \div 86400) + 719468, secs % 86400)

\* String(n).padStart(2, '0')
padStart2(n) == IF n < 10 THEN "0" \o ToString(n) ELSE ToString(n)

\* YYYY/M/D HH:mm:ss, month and day not padded
getBeijingTimeString(clock) ==
  LET Format(f) ==
        ToString(f.year) \o "/" \o ToString(f.month) \o "/" \o ToString(f.day) \o " "
          \o padStart2(f.hours) \o ":" \o padStart2(f.minutes) \o ":" \o padStart2(f.seconds)
  IN Format(UTCFields(clock + OFFSET))

----------------------------------------------------------------------------
(* Paths: a path is a sequence of components, a component a sequence of chunks *)

LOG_DIR == << <<"app">>, <<"logs">> >>

RECURSIVE SplitOnSlash(_, _, _)
\* the components of a chunk sequence, cut at every "/"
SplitOnSlash(chunks, i, cur) ==
  IF i > Len(chunks) THEN <<cur>>
  ELSE IF chunks[i] = "/" THEN <<cur>> \o SplitOnSlash(chunks, i + 1, <<>>)
  ELSE SplitOnSlash(chunks, i + 1, Append(cur, chunks[i]))

RECURSIVE Normalize(_, _, _)
\* path.normalize on an absolute path: empty components vanish, ".." removes its parent
Normalize(comps, i, acc) ==
  IF i > Len(comps) THEN acc
  ELSE IF comps[i] = <<>> THEN Normalize(comps, i + 1, acc)
  ELSE IF comps[i] = <<"..">>
    THEN Normalize(comps, i + 1, IF acc = <<>> THEN acc ELSE SubSeq(acc, 1, Len(acc) - 1))
  ELSE Normalize(comps, i + 1, Append(acc, comps[i]))

\* path.join(dir, name)
pathJoin(dir, name) == Normalize(dir \o SplitOnSlash(name, 1, <<>>), 1, <<>>)

\* `${type}-${year}-${month}-${day}.log` under LOG_DIR, month and day padded
getLogFileName(type, clock) ==
  LET Name(f) ==
        <<type \o "-",
          ToString(f.year) \o "-" \o padStart2(f.month) \o "-" \o padStart2(f.day),
          ".log">>
  IN pathJoin(LOG_DIR, Name(UTCFields(clock + OFFSET)))

----------------------------------------------------------------------------
(* Cards, as the dashboard builds and reads them *)

Titles == {"a", "\""}
Urls == {"u"}
Colors == {"c"}
Card == [id : 1..MaxId, title : Titles, url : Urls, color : Colors]
\* the valid Card sequences: ids are unique within a collection
CardSeqs ==
  {cs \in UNION {[1..n -> Card] : n \in 0..MaxCards} :
     \A i, j \in 1..Len(cs) : cs[i].id = cs[j].id => i = j}

\* { id, title, url, color }
CardToJson(c) ==
  JObj(<<"id", "title", "url", "color">>, <<JNum(c.id), JStr(c.title), JStr(c.url), JStr(c.color)>>)
CardsToJson(cs) == JArr([i \in 1..Len(cs) |-> CardToJson(cs[i])])

\* the property `name` of an object
Field(obj, name) == obj.v[CHOOSE i \in 1..Len(obj.k) : obj.k[i] = name]
HasField(val, name) == val.t = "obj" /\ \E i \in 1..Len(val.k) : val.k[i] = name

\* what a client sees of the array it received: c.id, c.title, c.url, c.color in order
JsonToCards(val) ==
  [i \in 1..Len(val.a) |->
     [id |-> Field(val.a[i], "id").n, title |-> Field(val.a[i], "title").s,
      url |-> Field(val.a[i], "url").s, color |-> Field(val.a[i], "color").s]]

----------------------------------------------------------------------------
(* Requests *)

NoBody == [has |-> FALSE, text |-> <<>>]
JsonBody(text) == [has |-> TRUE, text |-> text]
Request(method, url, body) ==
  [method |-> method, url |-> url, body |-> body, ip |-> "1.2.3.4", ua |-> "UA"]

\* saveCards(cards): POST /api/cards with body JSON.stringify(cards)
saveCards(cs) == Request("POST", <<"/api/cards">>, JsonBody(JSONstringify(CardsToJson(cs), FALSE)))

CardRequests ==
  {Request("GET", <<"/api/cards">>, NoBody), Request("POST", <<"/api/cards">>, NoBody),
   Request("POST", <<"/api/cards">>, JsonBody(<<"[", "{">>)),
   Request("POST", <<"/api/cards">>, JsonBody(<<"null">>))}
  \cup {saveCards(cs) : cs \in CardSeqs}

\* raw chunks a client may put after /api/logs/
NameChunks == {"access-", ".log", "..", "%2F"}
RawNames == UNION {[1..n -> NameChunks] : n \in 1..MaxNameLen}
\* access-/../../.log, percent-encoded
TraversalName == <<"access-", "%2F", "..", "%2F", "..", "%2F", ".log">>
\* ../../etc/passwd, percent-encoded
PasswdName == <<"..", "%2F", "..", "%2F", "etc", "%2F", "passwd">>
TxtName == <<"access-", "2024-01-01", ".txt">>
\* the log file of the day after ClockStart
DatedName == <<"access-", "2024-01-10", ".log">>
LogRequests ==
  {Request("GET", <<"/api/logs/">> \o raw, NoBody) :
     raw \in RawNames \cup {TraversalName, PasswdName, TxtName, DatedName}}

OtherRequests ==
  {Request("GET", <<"/">>, NoBody), Request("GET", <<"/api/logs/", "..", "/", "..">>, NoBody),
   Request("POST", <<"/nope">>, JsonBody(<<"{">>))}

----------------------------------------------------------------------------
(* The middleware every request passes: bodyParser.json(), the logger, the error handler *)

\* bodyParser.json(): req.body, or an error for a body that is not a JSON object or array
bodyParserJson(req) ==
  IF ~req.body.has THEN [err |-> FALSE, body |-> JObj(<<>>, <<>>)]
  ELSE LET Strict(r) ==
             IF r.ok /\ r.val.t \in {"arr", "obj"} THEN [err |-> FALSE, body |-> r.val]
             ELSE [err |-> TRUE]
       IN Strict(JSONparse(req.body.text))

\* the line writeAccessLog builds
AccessLogLine(req, clock) ==
  <<"[", getBeijingTimeString(clock), "] [IP: ", req.ip, "] [", req.method, "] ">>
    \o req.url \o <<" - \"", req.ua, "\"\n">>

\* fs.appendFileSync(file, line)
appendFile(files, file, line) ==
  IF file \in DOMAIN files THEN [files EXCEPT ![file] = Append(@, line)]
  ELSE files @@ (file :> <<line>>)

\* writeAccessLog(req): the clock is read for the line (t1) and again for the file name (t2)
writeAccessLog(req, t1, t2, files) ==
  appendFile(files, getLogFileName("access", t2), AccessLogLine(req, t1))

\* app.use(bodyParser.json()); app.use((req, res, next) => { writeAccessLog(req); next(); })
\* err: the request goes to the error middleware instead of a route
Middleware(req, t1, t2, appendOk) ==
  LET Logger(parsed) ==
        IF parsed.err
          THEN [err |-> TRUE, cause |-> "body", appended |-> 0, files |-> logFiles]
        ELSE IF ~appendOk
          THEN [err |-> TRUE, cause |-> "log", appended |-> 0, files |-> logFiles]
        ELSE [err |-> FALSE, cause |-> "none", appended |-> 1, body |-> parsed.body,
              files |-> writeAccessLog(req, t1, t2, logFiles)]
  IN Logger(bodyParserJson(req))

Text(s) == <<s>>
SUCCESS(b) == JSONstringify(JObj(<<"success">>, <<JBool(b)>>), FALSE)

\* the record of an answered request
Answered(req, m, route, status, body, reads) ==
  [some |-> TRUE, req |-> req, cause |-> m.cause, appended |-> m.appended,
   route |-> route, status |-> status, body |-> body, reads |-> reads]

\* app.use((err, req, res, next) => res.status(500).json({ success: false, message }))
errorMiddleware(req, m) ==
  Answered(req, m, "error", 500,
           JSONstringify(JObj(<<"success", "message">>, <<JBool(FALSE), JStr("server error")>>), FALSE),
           {})

ClockEnd == ClockStart + MaxTicks
\* the instants the second clock read of a handler started at `now` may return
LaterReads == {t \in {now, now + 1} : t <= ClockEnd}

----------------------------------------------------------------------------
(* Routing *)

startsWith(s, prefix) == Len(s) >= Len(prefix) /\ SubSeq(s, 1, Len(prefix)) = prefix
endsWith(s, suffix) == Len(s) >= Len(suffix) /\ SubSeq(s, Len(s) - Len(suffix) + 1, Len(s)) = suffix

\* decodeURIComponent on one chunk of a route parameter
decodeChunk(c) == IF c = "%2F" THEN "/" ELSE c

\* the part of the url the pattern /api/logs/:filename captures (one optional trailing "/"
\* is not part of it); <<>> when the pattern does not match
RawParam(url) ==
  IF ~startsWith(url, <<"/api/logs/">>) THEN <<>>
  ELSE LET rest == SubSeq(url, 2, Len(url))
           name == IF rest # <<>> /\ rest[Len(rest)] = "/" THEN SubSeq(rest, 1, Len(rest) - 1) ELSE rest
       IN IF \E i \in 1..Len(name) : name[i] = "/" THEN <<>> ELSE name

\* req.params.filename
ParamFilename(url) == [i \in 1..Len(RawParam(url)) |-> decodeChunk(RawParam(url)[i])]

\* the first handler registered after the middleware that takes the request
Route(req) ==
  IF req.method = "GET" /\ req.url = <<"/">> THEN "static"
  ELSE IF req.method = "GET" /\ req.url = <<"/api/cards">> THEN "getCards"
  ELSE IF req.method = "POST" /\ req.url = <<"/api/cards">> THEN "postCards"
  ELSE IF req.method = "GET" /\ req.url = <<"/api/logs/", "files">> THEN "logCatalog"
  ELSE IF req.method = "GET" /\ RawParam(req.url) # <<>> THEN "logFile"
  ELSE "none"

----------------------------------------------------------------------------
(* Card Store *)

\* getCardsBody that reports a failed read or parse instead of sending []
getCardsBody_reportError(file) ==
  IF file.st = "ok" /\ JSONparse(file.text).ok
    THEN JSONstringify(JSONparse(file.text).val, FALSE)
  ELSE JSONstringify(JObj(<<"success">>, <<JBool(FALSE)>>), FALSE)

\* app.get('/api/cards'): the body res.json sends
getCardsBody(file) ==
  IF file.st # "ok" THEN JSONstringify(JArr(<<>>), FALSE)
  ELSE LET Send(r) ==
             IF r.ok THEN JSONstringify(r.val, FALSE) ELSE JSONstringify(JArr(<<>>), FALSE)
       IN Send(JSONparse(file.text))

\* postCardsText with the last element of an array left out
postCardsText_dropLast(body) ==
  JSONstringify(IF body.t = "arr" /\ body.a # <<>>
                  THEN JArr(SubSeq(body.a, 1, Len(body.a) - 1)) ELSE body, TRUE)

\* the text app.post('/api/cards') writes: JSON.stringify(req.body, null, 2)
postCardsText(body) == JSONstringify(body, TRUE)

WriteResults == {"ok", "EACCES", "ENOSPC"}

\* writeFile that appends to the file instead of replacing its content
writeFile_append(file, text, wr) ==
  IF wr = "ok" THEN [st |-> "ok", text |-> (IF file.st = "ok" THEN file.text ELSE <<>>) \o text]
  ELSE file

\* fs.writeFileSync(DATA_FILE, text): on ENOSPC the file was already truncated
writeFile(file, text, wr) ==
  IF wr = "ok" THEN [st |-> "ok", text |-> text]
  ELSE IF wr = "ENOSPC" THEN [st |-> "ok", text |-> <<>>]
  ELSE file

\* one GET /api/cards
GetCardsWith(req) ==
  \E t2 \in LaterReads, appendOk \in BOOLEAN :
    /\ Route(req) = "getCards"
    /\ \E m \in {Middleware(req, now, t2, appendOk)} :
         /\ last' = IF m.err THEN errorMiddleware(req, m)
                    ELSE Answered(req, m, "getCards", 200, getCardsBody(dataFile), {})
         /\ logFiles' = m.files
    /\ now' = t2

GetCards ==
  /\ served < MaxRequests
  /\ \E req \in CardRequests \cup OtherRequests : GetCardsWith(req)
  /\ served' = served + 1
  /\ UNCHANGED <<dataFile, pending, lastReplace>>
  /\ UNCHANGED syncVars
  /\ UNCHANGED clientVars

\* one POST /api/cards; posted is the Card sequence the client sent, when it sent one
PostCardsWith(req, posted) ==
  \E t2 \in LaterReads, appendOk \in BOOLEAN :
    /\ Route(req) = "postCards"
    /\ \E m \in {Middleware(req, now, t2, appendOk)}, wr \in WriteResults :
         /\ last' = IF m.err THEN errorMiddleware(req, m)
                    ELSE Answered(req, m, "postCards", 200, SUCCESS(wr = "ok"), {})
         /\ logFiles' = m.files
         /\ dataFile' = IF m.err THEN dataFile ELSE writeFile(dataFile, postCardsText(m.body), wr)
         /\ lastReplace' = IF m.err THEN lastReplace
                           ELSE IF wr = "ok" THEN posted ELSE [some |-> FALSE]
    /\ now' = t2

PostCards ==
  /\ served < MaxRequests
  /\ \/ \E cs \in CardSeqs : PostCardsWith(saveCards(cs), [some |-> TRUE, cards |-> cs])
     \/ \E req \in CardRequests \ {saveCards(cs) : cs \in CardSeqs} :
          PostCardsWith(req, [some |-> FALSE])
  /\ served' = served + 1
  /\ UNCHANGED pending
  /\ UNCHANGED syncVars
  /\ UNCHANGED clientVars

----------------------------------------------------------------------------
(* Log Reader *)

\* validLogName with the suffix test left out
validLogName_prefixOnly(filename) == startsWith(filename, <<"access-">>)

\* the check app.get('/api/logs/:filename') makes before it reads
validLogName(filename) == startsWith(filename, <<"access-">>) /\ endsWith(filename, <<".log">>)

GetLogFile ==
  /\ served < MaxLogRequests
  /\ \E req \in LogRequests, t2 \in LaterReads, appendOk \in BOOLEAN :
       /\ Route(req) = "logFile"
       /\ \E m \in {Middleware(req, now, t2, appendOk)}, filename \in {ParamFilename(req.url)} :
             /\ logFiles' = m.files
             /\ IF m.err THEN /\ last' = errorMiddleware(req, m)
                              /\ UNCHANGED pending
                ELSE IF ~validLogName(filename)
                  THEN /\ last' = Answered(req, m, "logFile", 400, Text("invalid log file name"), {})
                       /\ UNCHANGED pending
                ELSE /\ pending' = Append(pending, [req |-> req, cause |-> m.cause,
                                                    appended |-> m.appended,
                                                    file |-> pathJoin(LOG_DIR, filename)])
                     /\ UNCHANGED last
       /\ now' = t2
  /\ served' = served + 1
  /\ UNCHANGED <<dataFile, lastReplace>>
  /\ UNCHANGED syncVars
  /\ UNCHANGED clientVars

RECURSIVE Flatten(_)
\* the text of a file, given its lines
Flatten(lines) == IF lines = <<>> THEN <<>> ELSE Head(lines) \o Flatten(Tail(lines))

\* what fs.readFile(file) can hand to its callback
ReadOutcomes(file) ==
  IF file \in DOMAIN logFiles
    THEN {[err |-> "none", data |-> Flatten(logFiles[file])], [err |-> "EIO", data |-> <<>>]}
  ELSE {[err |-> "ENOENT", data |-> <<>>], [err |-> "EIO", data |-> <<>>],
        [err |-> "none", data |-> Text("other file")]}

\* the callback of fs.readFile in app.get('/api/logs/:filename')
ReadFileCallback ==
  /\ pending # <<>>
  /\ \E out \in ReadOutcomes(Head(pending).file) :
       LET p == Head(pending) IN
       last' = IF out.err # "none"
                 THEN Answered(p.req, p, "logFile", 404, Text("log file not found"), {p.file})
               ELSE Answered(p.req, p, "logFile", 200, out.data, {p.file})
  /\ pending' = Tail(pending)
  /\ UNCHANGED <<now, dataFile, logFiles, lastReplace, served>>
  /\ UNCHANGED syncVars
  /\ UNCHANGED clientVars

----------------------------------------------------------------------------
(* Everything else: express.static('public') and requests no route takes *)

OtherRoute ==
  /\ served < MaxRequests
  /\ \E req \in OtherRequests, t2 \in LaterReads, appendOk \in BOOLEAN :
       /\ Route(req) \in {"static", "none"}
       /\ \E m \in {Middleware(req, now, t2, appendOk)} :
            /\ last' = IF m.err THEN errorMiddleware(req, m)
                       ELSE IF Route(req) = "static"
                         THEN Answered(req, m, "static", 200, Text("index.html"), {})
                       ELSE Answered(req, m, "none", 404, Text("Cannot " \o req.method), {})
            /\ logFiles' = m.files
       /\ now' = t2
  /\ served' = served + 1
  /\ UNCHANGED <<dataFile, pending, lastReplace>>
  /\ UNCHANGED syncVars
  /\ UNCHANGED clientVars

\* time passes
Tick ==
  /\ now < ClockEnd
  /\ now' = now + 1
  /\ UNCHANGED <<dataFile, logFiles, pending, last, lastReplace, served>>
  /\ UNCHANGED syncVars
  /\ UNCHANGED clientVars

----------------------------------------------------------------------------
(* The browsers before a page is opened *)

Sessions == {"A", "B"}
IdleSession ==
  [pc |-> "idle", op |-> "none", id |-> 0, dom |-> <<>>,
   loaded |-> [some |-> FALSE], posted |-> [some |-> FALSE]]
\* let rawLogData = ''; let ipStats = { total: 0, unique: 0, ipCounts: {} }; ...
IdleViewer ==
  [rawLogData |-> <<>>, currentFilterIp |-> <<>>,
   ipStats |-> [total |-> 0, unique |-> 0, ipCounts |-> <<>>],
   topIpList |-> [kind |-> "message", items |-> <<>>],
   logContent |-> [kind |-> "message", data |-> <<"loading">>]]
ClientIdle ==
  /\ sess = [s \in Sessions |-> IdleSession]
  /\ viewer = IdleViewer

----------------------------------------------------------------------------
(* The server after start-up: LOG_DIR exists, DATA_FILE holds [] *)

ServerInit ==
  /\ dataFile = [st |-> "ok", text |-> <<"[", "]">>]
  /\ logFiles = [f \in {} |-> <<>>]
  /\ pending = <<>>
  /\ last = [some |-> FALSE]
  /\ lastReplace = [some |-> FALSE]
  /\ served = 0

SyncIdle ==
  /\ spc = "idle"
  /\ remote = [exists |-> FALSE]
  /\ getResp = [some |-> FALSE]
  /\ putReq = [some |-> FALSE]
  /\ exitCode = -1
  /\ runs = 0
  /\ edits = 0

\* the Card Store under its requests
InitCards == ServerInit /\ now = ClockEnd /\ SyncIdle /\ ClientIdle
NextCards == GetCards \/ PostCards \/ OtherRoute
SpecCards == InitCards /\ [][NextCards]_vars

\* the Log Reader under its requests
InitLogs == ServerInit /\ now = ClockStart /\ SyncIdle /\ ClientIdle
NextLogs == GetLogFile \/ ReadFileCallback \/ OtherRoute \/ Tick
SpecLogs == InitLogs /\ [][NextLogs]_vars

----------------------------------------------------------------------------
(* Claims about the server *)

HasSeparator(filename) == \E i \in 1..Len(filename) : filename[i] = "/"
DirectLogEntry(file) ==
  /\ Len(file) = Len(LOG_DIR) + 1
  /\ SubSeq(file, 1, Len(LOG_DIR)) = LOG_DIR
  /\ ~HasSeparator(file[Len(file)])
  /\ file[Len(file)] # <<"..">>

\* C2: the Log Reader answers every filename that contains a path separator with 400 and
\* without a read, so no request reads a file that is not a direct entry of LOG_DIR.
C2_SeparatorRejected ==
  /\ (last.some /\ last.route = "logFile" /\ HasSeparator(ParamFilename(last.req.url))) =>
       (last.status = 400 /\ last.reads = {})
  /\ \A i \in 1..Len(pending) :
       /\ ~HasSeparator(ParamFilename(pending[i].req.url))
       /\ DirectLogEntry(pending[i].file)
  /\ last.some => \A f \in last.reads : DirectLogEntry(f)

BadShape(filename) ==
  \/ filename = <<>>
  \/ filename[1] # "access-"
  \/ filename[Len(filename)] # ".log"

\* C3: the Log Reader answers every filename that does not begin with access- or does not
\* end with .log with 400, and reads no file for it.
C3_BadShapeRejected ==
  /\ (last.some /\ last.route = "logFile" /\ BadShape(ParamFilename(last.req.url))) =>
       (last.status = 400 /\ last.reads = {})
  /\ \A i \in 1..Len(pending) : ~BadShape(ParamFilename(pending[i].req.url))

\* the Log Reader has rejected ../../etc/passwd (sent with %2F for every /)
C3_Witness ==
  /\ last.some /\ last.route = "logFile" /\ last.status = 400 /\ last.reads = {}
  /\ ParamFilename(last.req.url) = <<"..", "/", "..", "/", "etc", "/", "passwd">>

\* C4: a request whose log append failed still reaches its route handler and gets that
\* handler's response.
C4_LogFailureDoesNotAbort ==
  (last.some /\ last.cause = "log") => (last.route # "error" /\ last.status # 500)

\* C5: every answered request was logged first: exactly one line was appended for it
\* before its response was produced (stated for the requests whose append did not fail;
\* C4 is about the others).
C5_LoggedBeforeAnswered ==
  /\ (last.some /\ last.cause # "log") => last.appended = 1
  /\ \A i \in 1..Len(pending) : pending[i].appended = 1

----------------------------------------------------------------------------
(* Remote Sync: sync.js and the contents API it talks to *)

MaxRuns == 2         \* times sync.js is started
MaxEdits == 1        \* edits by other parties to the remote document

JUndef == [t |-> "undef"]

\* if (v): JavaScript truthiness
Truthy(val) ==
  CASE val.t \in {"null", "undef"} -> FALSE
    [] val.t = "bool" -> val.b
    [] val.t = "num" -> val.n # 0
    [] val.t = "str" -> val.s # ""
    [] OTHER -> TRUE

\* v.name
Prop(val, name) == IF HasField(val, name) THEN Field(val, name) ELSE JUndef

\* what JSON.stringify keeps of an object: members whose value is undefined are left out
DropUndefined(obj) ==
  LET keep == SelectSeq([i \in 1..Len(obj.k) |-> i], LAMBDA i : obj.v[i].t # "undef")
  IN JObj([j \in 1..Len(keep) |-> obj.k[keep[j]]], [j \in 1..Len(keep) |-> obj.v[keep[j]]])

\* Buffer.from(text).toString('base64')
base64(text) == [enc |-> "base64", of |-> text]

\* s.includes(sub), on chunk sequences
includes(str, sub) ==
  \E i \in 1..(Len(str) - Len(sub) + 1) : SubSeq(str, i, i + Len(sub) - 1) = sub

\* the documents the remote file may hold, and the hash the remote gives each
OneCardText == postCardsText(CardsToJson(<<[id |-> 1, title |-> "a", url |-> "u", color |-> "c"]>>))
Documents == << <<"[", "]">>, OneCardText, <<"x">>, <<"y">> >>
ShaOf(content) == "sha" \o ToString(CHOOSE i \in 1..Len(Documents) : Documents[i] = content)

MetaBody(content) ==
  JSONstringify(JObj(<<"name", "sha">>, <<JStr("data.json"), JStr(ShaOf(content))>>), FALSE)
MessageBody(msg) == JSONstringify(JObj(<<"message">>, <<JStr(msg)>>), FALSE)

NetErr == [neterr |-> TRUE, status |-> 0, body |-> <<>>]
Resp(status, body) == [neterr |-> FALSE, status |-> status, body |-> body]

\* bodies of responses that carry no file metadata
OddBodies == {<<>>, <<"null">>, <<"{", "}">>, <<"<html>">>, <<"[", "404", "]">>, MessageBody("error")}
OddStatuses == {200, 301, 403, 500}

\* GET contents/data.json: the answer of the contents API, or a fault on the way
GetResponses(rem) ==
  {IF rem.exists THEN Resp(200, MetaBody(rem.content)) ELSE Resp(404, MessageBody("Not Found"))}
  \cup {NetErr}
  \cup {Resp(st, b) : st \in OddStatuses, b \in OddBodies}

\* githubRequest: how the promise ends for a response;
\* "throw" is the SyntaxError JSON.parse raises inside the 'end' listener
githubRequest(resp) ==
  IF resp.neterr THEN [kind |-> "reject", message |-> <<"socket hang up">>]
  ELSE IF resp.status >= 400
    THEN [kind |-> "reject",
          message |-> <<"API error ", "[", ToString(resp.status), "]", ": ">> \o resp.body]
  ELSE LET Resolve(r) == IF r.ok THEN [kind |-> "resolve", val |-> r.val] ELSE [kind |-> "throw"]
       IN Resolve(JSONparse(IF resp.body = <<>> THEN <<"{", "}">> ELSE resp.body))

\* localDataEmpty with the test left out
localDataEmpty_never(text) == FALSE

\* !localData
localDataEmpty(text) == text = <<>>

\* step 2 of sync(): remoteFileInfo, or the error that leaves the try block
fetchRemoteFileInfo(res) ==
  IF res.kind = "resolve" THEN [fatal |-> FALSE, info |-> res.val]
  ELSE IF res.kind = "reject" /\ includes(res.message, <<"[", "404", "]">>)
    THEN [fatal |-> FALSE, info |-> JNull]
  ELSE [fatal |-> TRUE]

\* commitData with sha always set, to '' when no hash was fetched
commitData_alwaysSha(localData, remoteFileInfo, clock) ==
  JObj(<<"message", "content", "branch", "sha">>,
       <<JStr(<<"Update data.json - ", getBeijingTimeString(clock - OFFSET)>>),
         JStr(base64(localData)), JStr("main"),
         IF HasField(remoteFileInfo, "sha") THEN Prop(remoteFileInfo, "sha") ELSE JStr("")>>)

\* step 3 of sync(): commitData
commitData(localData, remoteFileInfo, clock) ==
  JObj(<<"message", "content", "branch", "sha">>,
       <<JStr(<<"Update data.json - ", getBeijingTimeString(clock - OFFSET)>>),
         JStr(base64(localData)), JStr("main"),
         IF Truthy(remoteFileInfo) THEN Prop(remoteFileInfo, "sha") ELSE JUndef>>)

\* PUT contents/data.json at the contents API: the file is written when the payload names
\* the hash of the existing file, or names none and there is no file
RemotePut(rem, payload) ==
  LET content == Field(payload, "content").s.of
      hasSha == HasField(payload, "sha")
  IN IF rem.exists /\ hasSha /\ Field(payload, "sha") = JStr(ShaOf(rem.content))
       THEN [applied |-> TRUE, remote |-> [exists |-> TRUE, content |-> content],
             resp |-> Resp(200, MetaBody(content))]
     ELSE IF ~rem.exists /\ ~hasSha
       THEN [applied |-> TRUE, remote |-> [exists |-> TRUE, content |-> content],
             resp |-> Resp(201, MetaBody(content))]
     ELSE [applied |-> FALSE, remote |-> rem,
           resp |-> IF hasSha THEN Resp(409, MessageBody("does not match"))
                    ELSE Resp(422, MessageBody("sha was not supplied"))]

\* what may come of a PUT: the answer of the contents API, the answer lost or garbled on the
\* way back, or a fault before the API saw the request
PutOutcomes(rem, payload) ==
  LET done == RemotePut(rem, payload) IN
  {done, [done EXCEPT !.resp = NetErr], [done EXCEPT !.resp = Resp(done.resp.status, <<"<html>">>)]}
  \cup {[applied |-> FALSE, remote |-> rem, resp |-> r] :
          r \in {NetErr, Resp(307, MessageBody("Moved Permanently")), Resp(500, <<"<html>">>)}}

Running == spc \in {"awaitGet", "awaitPut"}

\* node sync.js, up to the first await
SyncStart ==
  /\ ~Running
  /\ runs < MaxRuns
  /\ runs' = runs + 1
  /\ getResp' = [some |-> FALSE]
  /\ putReq' = [some |-> FALSE]
  /\ \E configured \in BOOLEAN :
       IF ~configured \/ dataFile.st = "missing"
         THEN spc' = "exited" /\ exitCode' = 1
       ELSE IF dataFile.st # "ok" \/ localDataEmpty(dataFile.text)
         THEN spc' = "exited" /\ exitCode' = 1
       ELSE spc' = "awaitGet" /\ exitCode' = -1
  /\ UNCHANGED <<remote, edits>>
  /\ UNCHANGED serverVars
  /\ UNCHANGED clientVars

\* the metadata GET is answered; sync() runs on to the PUT or to its end
GetResponse ==
  /\ spc = "awaitGet"
  /\ \E resp \in GetResponses(remote) :
       \E res \in {githubRequest(resp)} : \E info \in {fetchRemoteFileInfo(res)} :
          /\ getResp' = [some |-> TRUE, resp |-> resp, remote |-> remote]
          /\ IF res.kind = "throw"
               THEN spc' = "crashed" /\ exitCode' = 1 /\ UNCHANGED putReq
             ELSE IF info.fatal
               THEN spc' = "exited" /\ exitCode' = 1 /\ UNCHANGED putReq
             ELSE /\ spc' = "awaitPut"
                  /\ putReq' = [some |-> TRUE, answered |-> FALSE,
                                payload |-> DropUndefined(commitData(dataFile.text, info.info, now))]
                  /\ UNCHANGED exitCode
  /\ UNCHANGED <<remote, runs, edits>>
  /\ UNCHANGED serverVars
  /\ UNCHANGED clientVars

\* the outcome of sync() once the PUT was answered with resp
finish(resp) ==
  LET Outcome(res) ==
        IF res.kind = "throw" THEN [spc |-> "crashed", exitCode |-> 1]
        ELSE IF res.kind = "reject" THEN [spc |-> "exited", exitCode |-> 1]
        ELSE [spc |-> "exited", exitCode |-> 0]
  IN Outcome(githubRequest(resp))

\* the PUT reaches the remote and is answered; sync() ends
PutResponse ==
  /\ spc = "awaitPut"
  /\ \E out \in PutOutcomes(remote, putReq.payload) :
       /\ remote' = out.remote
       /\ putReq' = [putReq EXCEPT !.answered = TRUE] @@
                    [resp |-> out.resp, applied |-> out.applied, before |-> remote]
       /\ spc' = finish(out.resp).spc
       /\ exitCode' = finish(out.resp).exitCode
  /\ UNCHANGED <<getResp, runs, edits>>
  /\ UNCHANGED serverVars
  /\ UNCHANGED clientVars

\* another party writes or deletes the remote document
RemoteEdit ==
  /\ edits < MaxEdits
  /\ edits' = edits + 1
  /\ \E r \in {[exists |-> FALSE]} \cup {[exists |-> TRUE, content |-> <<c>>] : c \in {"x", "y"}} :
       r # remote /\ remote' = r
  /\ UNCHANGED <<spc, getResp, putReq, exitCode, runs>>
  /\ UNCHANGED serverVars
  /\ UNCHANGED clientVars

\* the local documents sync.js may find
LocalFiles ==
  {[st |-> "missing", text |-> <<>>], [st |-> "unreadable", text |-> <<>>],
   [st |-> "ok", text |-> <<>>], [st |-> "ok", text |-> <<"[", "]">>],
   [st |-> "ok", text |-> OneCardText]}

InitSync ==
  /\ now = ClockStart
  /\ dataFile \in LocalFiles
  /\ logFiles = [f \in {} |-> <<>>]
  /\ pending = <<>>
  /\ last = [some |-> FALSE]
  /\ lastReplace = [some |-> FALSE]
  /\ served = 0
  /\ spc = "idle"
  /\ remote \in {[exists |-> FALSE], [exists |-> TRUE, content |-> <<"x">>],
                 [exists |-> TRUE, content |-> <<"[", "]">>]}
  /\ getResp = [some |-> FALSE]
  /\ putReq = [some |-> FALSE]
  /\ exitCode = -1
  /\ runs = 0
  /\ edits = 0
  /\ ClientIdle
NextSync == SyncStart \/ GetResponse \/ PutResponse \/ RemoteEdit
SpecSync == InitSync /\ [][NextSync]_vars

----------------------------------------------------------------------------
(* Claims about Remote Sync *)

\* the metadata GET of this run was answered with the metadata of an existing remote file
GetFoundFile ==
  /\ getResp.some
  /\ getResp.remote.exists
  /\ getResp.resp = Resp(200, MetaBody(getResp.remote.content))

\* C6: in a run that issues the PUT, the payload has the sha field exactly when the metadata
\* GET returned an existing remote file, and then it is the hash that GET returned; after a
\* not-found GET the payload has no sha field.
C6_ShaRule ==
  putReq.some =>
    /\ HasField(putReq.payload, "sha") <=> GetFoundFile
    /\ GetFoundFile => Field(putReq.payload, "sha") = JStr(ShaOf(getResp.remote.content))
    /\ (~getResp.resp.neterr /\ getResp.resp.status = 404) => ~HasField(putReq.payload, "sha")

\* a PUT was issued with the hash of the remote file x
C6_Witness ==
  /\ putReq.some /\ GetFoundFile
  /\ getResp.remote.content = <<"x">>
  /\ HasField(putReq.payload, "sha")

\* C7: when the local Card Document is empty or cannot be read, sync() ends with exit code 1
\* and issues no PUT (and no GET) in that run.
C7_EmptyLocalAborts ==
  (runs > 0 /\ (dataFile.st # "ok" \/ dataFile.text = <<>>)) =>
    (spc = "exited" /\ exitCode = 1 /\ ~putReq.some /\ ~getResp.some)

\* sync.js has run on an existing but empty data.json
C7_Witness == runs > 0 /\ dataFile = [st |-> "ok", text |-> <<>>] /\ spc = "exited"

\* the metadata GET of this run was answered by the contents API from the remote's state
GetFetched ==
  \/ GetFoundFile
  \/ getResp.some /\ ~getResp.remote.exists /\ getResp.resp = Resp(404, MessageBody("Not Found"))

\* C8: when the remote document was changed by another party after sync() fetched its
\* metadata and before the PUT, the PUT is not applied, sync ends with a failure outcome,
\* and the remote document is what the other party left.
C8_StaleWriteFails ==
  (GetFetched /\ putReq.some /\ putReq.answered /\ putReq.before # getResp.remote) =>
    (~putReq.applied /\ spc \in {"exited", "crashed"} /\ exitCode = 1)

IsBadResponse(resp) ==
  \/ resp.neterr
  \/ resp.status \notin 200..299
  \/ ~JSONparse(IF resp.body = <<>> THEN <<"{", "}">> ELSE resp.body).ok

\* C9: a network error, a response whose status is not 2xx, or a JSON-parse failure, at the
\* GET or at the PUT, ends the run with a failure outcome, never with success (stated for
\* the events C10 does not cover: error statuses of the GET are left to C10).
C9_AnyFailureAborts ==
  (/\ spc \in {"exited", "crashed"}
   /\ \/ getResp.some /\ IsBadResponse(getResp.resp) /\ getResp.resp.status < 400
      \/ putReq.some /\ putReq.answered /\ IsBadResponse(putReq.resp))
  => exitCode = 1

\* C10: every error response to the metadata GET other than 404 is fatal, whatever its
\* body: sync fails and issues no PUT.
C10_OnlyNotFoundProceeds ==
  (getResp.some /\ ~getResp.resp.neterr /\ getResp.resp.status >= 400 /\ getResp.resp.status # 404)
  => (~putReq.some /\ spc = "exited" /\ exitCode = 1)

----------------------------------------------------------------------------
(* The dashboard (public/index.html): every session reads the collection, changes it and *)
(* replaces it as a whole                                                                *)

\* await res.json()
resJson(body) == JSONparse(body).val

\* renderCards(cards): the container is emptied, then forEach (a TypeError on a non-array)
\* adds one element per card; the element keeps its card for its edit and delete buttons
renderCards(val) == IF val.t = "arr" THEN JsonToCards(val) ELSE <<>>

\* Math.max(...ids)
MathMax(ids) == CHOOSE m \in {ids[i] : i \in DOMAIN ids} : \A i \in DOMAIN ids : ids[i] <= m

\* newCardId as the number of cards plus one
newCardId_count(cards) == Len(cards) + 1

\* newCardId as the id of the last card plus one
newCardId_last(cards) == IF Len(cards) # 0 THEN cards[Len(cards)].id + 1 ELSE 1

\* cards.length ? Math.max(...cards.map(c => c.id)) + 1 : 1
newCardId(cards) ==
  IF Len(cards) # 0 THEN MathMax([i \in 1..Len(cards) |-> cards[i].id]) + 1 ELSE 1

\* what the form of the card modal holds when Save is clicked
FormTitle == "\""
FormUrl == "u"
FormColor == "c"

\* saveCardBtn: the collection it posts; id = 0 stands for the empty cardId.value of an add
savedCards(cards, id) ==
  IF id # 0
    THEN [i \in 1..Len(cards) |->
            IF cards[i].id = id
              THEN [cards[i] EXCEPT !.title = FormTitle, !.url = FormUrl, !.color = FormColor]
            ELSE cards[i]]
  ELSE Append(cards, [id |-> newCardId(cards), title |-> FormTitle, url |-> FormUrl,
                      color |-> FormColor])

\* deleteCard that removes the first card, whatever its id
deletedCards_first(cards, id) == IF cards = <<>> THEN cards ELSE Tail(cards)

\* deleteCard: cards.filter(c => c.id !== id)
deletedCards(cards, id) == SelectSeq(cards, LAMBDA c : c.id # id)

\* a.href: the url, resolved and normalised by the browser
href(url) == IF url = "u" THEN "u/" ELSE url
\* el.style.borderLeftColor: the color, as the browser serialises it
borderLeftColor(color) == IF color = "c" THEN "rgb(c)" ELSE color

\* saveCurrentOrder: the cards it builds from the elements of the page
currentOrder(dom) ==
  [i \in 1..Len(dom) |->
     [id |-> i, title |-> dom[i].title, url |-> href(dom[i].url),
      color |-> borderLeftColor(dom[i].color)]]

\* the orders Sortable lets the user drag n elements into
Orders(n) == {p \in [1..n -> 1..n] : \A i, j \in 1..n : p[i] = p[j] => i = j}

DomIds(s) == {sess[s].dom[i].id : i \in 1..Len(sess[s].dom)}
GetCardsRequest == Request("GET", <<"/api/cards">>, NoBody)

\* loadCards() after a save; budget is the number of requests a behaviour may send
LoadCardsWithin(s, budget) ==
  /\ sess[s].pc = "reload"
  /\ served < budget
  /\ GetCardsWith(GetCardsRequest)
  /\ sess' = [sess EXCEPT ![s].pc = "idle", ![s].dom = renderCards(resJson(last'.body))]
  /\ served' = served + 1
  /\ UNCHANGED <<dataFile, pending, lastReplace, viewer>>
  /\ UNCHANGED syncVars

\* the click handlers of Save (add, or edit of a card of the page) and of a card's delete
\* button, up to the answer to their fetch('/api/cards'); the session has given the
\* password before
ClickFetchWithin(s, budget) ==
  /\ sess[s].pc = "idle"
  /\ served < budget
  /\ GetCardsWith(GetCardsRequest)
  /\ \E op \in {"add", "edit", "delete"}, id \in {0} \cup DomIds(s) :
       /\ (op = "add") = (id = 0)
       /\ sess' = [sess EXCEPT ![s].pc = "save", ![s].op = op, ![s].id = id,
                                ![s].loaded = [some |-> TRUE, val |-> resJson(last'.body)],
                                ![s].posted = [some |-> FALSE]]
  /\ served' = served + 1
  /\ UNCHANGED <<dataFile, pending, lastReplace, viewer>>
  /\ UNCHANGED syncVars

\* the collection a handler posts once its fetch was answered with cards
changedCards(op, cards, id) ==
  IF op = "delete" THEN deletedCards(cards, id) ELSE savedCards(cards, id)

\* the rest of the handler: cards.map, cards.push or cards.filter (a TypeError on the
\* object of an error answer ends the handler), then await saveCards(cards)
SaveChangedWithin(s, budget) ==
  /\ sess[s].pc = "save"
  /\ IF sess[s].loaded.val.t # "arr"
       THEN /\ sess' = [sess EXCEPT ![s].pc = "idle"]
            /\ UNCHANGED <<now, dataFile, logFiles, last, lastReplace, served>>
       ELSE /\ served < budget
            /\ \E cards \in {changedCards(sess[s].op, JsonToCards(sess[s].loaded.val), sess[s].id)} :
                 /\ PostCardsWith(saveCards(cards), [some |-> TRUE, cards |-> cards])
                 /\ sess' = [sess EXCEPT ![s].pc = "reload",
                                          ![s].posted = [some |-> TRUE, cards |-> cards,
                                                         answer |-> last'.body]]
            /\ served' = served + 1
  /\ UNCHANGED <<pending, viewer>>
  /\ UNCHANGED syncVars

\* leaving edit mode: saveCurrentOrder() posts the elements in the order they were dragged
\* into; the page is not loaded again
SaveCurrentOrderWithin(s, budget) ==
  /\ sess[s].pc = "idle"
  /\ served < budget
  /\ \E p \in Orders(Len(sess[s].dom)) :
       \E dom \in {[i \in 1..Len(sess[s].dom) |-> sess[s].dom[p[i]]]} :
         /\ PostCardsWith(saveCards(currentOrder(dom)), [some |-> TRUE, cards |-> currentOrder(dom)])
         /\ sess' = [sess EXCEPT ![s].op = "reorder", ![s].id = 0, ![s].dom = dom,
                                  ![s].loaded = [some |-> FALSE],
                                  ![s].posted = [some |-> TRUE, cards |-> currentOrder(dom),
                                                 answer |-> last'.body]]
  /\ served' = served + 1
  /\ UNCHANGED <<pending, viewer>>
  /\ UNCHANGED syncVars

\* the handlers of the dashboard sessions
LoadCards(s) == LoadCardsWithin(s, MaxDashRequests)
ClickFetch(s) == ClickFetchWithin(s, MaxDashRequests)
SaveChanged(s) == SaveChangedWithin(s, MaxDashRequests)
SaveCurrentOrder(s) == SaveCurrentOrderWithin(s, MaxDashRequests)

\* data.json when the sessions begin: collections with pairwise distinct ids, or a file that
\* is missing, unreadable or cut short; every session has the page open and shows what
\* loadCards() got from that file
DashCard(id) == [id |-> id, title |-> (IF id = 1 THEN "a" ELSE "b"), url |-> "u", color |-> "c"]
DashFiles ==
  {[st |-> "ok", text |-> postCardsText(CardsToJson(cs))] :
     cs \in {<<>>, <<DashCard(1), DashCard(3)>>, <<DashCard(3), DashCard(1)>>}}
  \cup {[st |-> "missing", text |-> <<>>], [st |-> "unreadable", text |-> <<>>],
         [st |-> "ok", text |-> <<"[", "{">>]}

InitDash ==
  /\ now = ClockEnd
  /\ dataFile \in DashFiles
  /\ logFiles = [f \in {} |-> <<>>]
  /\ pending = <<>>
  /\ last = [some |-> FALSE]
  /\ lastReplace = [some |-> FALSE]
  /\ served = 0
  /\ SyncIdle
  /\ sess = [s \in Sessions |->
               [IdleSession EXCEPT !.dom = renderCards(resJson(getCardsBody(dataFile)))]]
  /\ viewer = IdleViewer
NextDash ==
  \/ \E s \in Sessions : LoadCards(s)
  \/ \E s \in Sessions : ClickFetch(s)
  \/ \E s \in Sessions : SaveChanged(s)
  \/ \E s \in Sessions : SaveCurrentOrder(s)
SpecDash == InitDash /\ [][NextDash]_vars

\* two sessions that add, edit and delete on the collection with ids 1 and 3
InitEdit ==
  /\ InitDash
  /\ dataFile = [st |-> "ok", text |-> postCardsText(CardsToJson(<<DashCard(1), DashCard(3)>>))]
NextEdit ==
  \/ \E s \in Sessions : LoadCardsWithin(s, MaxEditRequests)
  \/ \E s \in Sessions : ClickFetchWithin(s, MaxEditRequests)
  \/ \E s \in Sessions : SaveChangedWithin(s, MaxEditRequests)
SpecEdit == InitEdit /\ [][NextEdit]_vars

----------------------------------------------------------------------------
(* Claims about the Card Store under the dashboard sessions *)

\* C11: whatever the interleaving of the sessions' replaces, once a replace has written the
\* file the document is exactly the sequence of that replace, the last writer's, never a
\* mixture of two sequences.
C11_LastWriterWins ==
  lastReplace.some =>
    /\ dataFile.st = "ok"
    /\ \A r \in {JSONparse(dataFile.text)} :
         r.ok /\ r.val.t = "arr" /\ JsonToCards(r.val) = lastReplace.cards

\* session B replaced the collection after A had fetched it, then A replaced it with a
\* different sequence; both were answered success and the document is A's
C11_Witness ==
  /\ sess["A"].loaded.some /\ sess["A"].posted.some /\ sess["B"].posted.some
  /\ sess["A"].posted.answer = SUCCESS(TRUE) /\ sess["B"].posted.answer = SUCCESS(TRUE)
  /\ sess["A"].loaded.val.t = "arr"
  /\ sess["B"].posted.cards # <<>>
  /\ JsonToCards(sess["A"].loaded.val) # sess["B"].posted.cards
  /\ sess["A"].posted.cards # sess["B"].posted.cards
  /\ lastReplace.some /\ lastReplace.cards = sess["A"].posted.cards
  /\ served = 3

BadArtifact(file) == file.st # "ok" \/ ~JSONparse(file.text).ok

\* C12: a load that finds data.json missing, unreadable or not valid JSON is answered 200
\* with the empty sequence.
C12_LoadNeverFails ==
  (last.some /\ last.route = "getCards" /\ BadArtifact(dataFile)) =>
    (last.status = 200 /\ last.body = <<"[", "]">>)

\* a load answered while data.json is missing
C12_Witness ==
  /\ last.some /\ last.route = "getCards" /\ last.status = 200
  /\ dataFile.st = "missing"

\* C13: the card an add appends has id 1 when the collection the handler fetched is empty,
\* and otherwise the largest id of that collection plus one.
C13_NewIdIsMaxPlusOne ==
  \A s \in Sessions :
    (sess[s].op = "add" /\ sess[s].posted.some) =>
      \E loaded \in {JsonToCards(sess[s].loaded.val)},
         new \in {sess[s].posted.cards[Len(sess[s].posted.cards)]} :
        /\ sess[s].posted.cards = Append(loaded, new)
        /\ IF loaded = <<>> THEN new.id = 1
           ELSE /\ \A i \in 1..Len(loaded) : loaded[i].id < new.id
                /\ \E i \in 1..Len(loaded) : loaded[i].id = new.id - 1

\* an add on the collection with ids 1, 3 has posted the new card with id 4
C13_Witness ==
  \E s \in Sessions :
    /\ sess[s].op = "add" /\ sess[s].posted.some /\ sess[s].posted.answer = SUCCESS(TRUE)
    /\ Len(sess[s].posted.cards) = 3
    /\ {sess[s].posted.cards[i].id : i \in 1..2} = {1, 3}
    /\ sess[s].posted.cards[3].id = 4

\* C14: the ids of the stored Card Document are pairwise distinct.
C14_IdsUnique ==
  dataFile.st = "ok" =>
    \A r \in {JSONparse(dataFile.text)} :
      (r.ok /\ r.val.t = "arr") =>
        \A i, j \in 1..Len(r.val.a) :
          Field(r.val.a[i], "id") = Field(r.val.a[j], "id") => i = j

\* B saved a new order while A's add was under way; A's add was then stored, three cards
C14_Witness ==
  /\ sess["A"].op = "add" /\ sess["A"].posted.some /\ sess["A"].posted.answer = SUCCESS(TRUE)
  /\ sess["B"].op = "reorder" /\ sess["B"].posted.answer = SUCCESS(TRUE)
  /\ lastReplace.some /\ lastReplace.cards = sess["A"].posted.cards
  /\ Len(lastReplace.cards) = 3
  /\ \A r \in {JSONparse(dataFile.text)} : r.ok /\ Len(r.val.a) = 3

----------------------------------------------------------------------------
(* Log Catalog *)

CatalogRequest == Request("GET", <<"/api/logs/", "files">>, NoBody)

RECURSIVE Join(_)
\* a name as one string
Join(chunks) == IF chunks = <<>> THEN "" ELSE Head(chunks) \o Join(Tail(chunks))

\* the entries of LOG_DIR
Entries(files) ==
  {p[Len(p)] : p \in {q \in DOMAIN files : /\ Len(q) = Len(LOG_DIR) + 1
                                           /\ SubSeq(q, 1, Len(LOG_DIR)) = LOG_DIR}}

\* the orders in which a directory may hand out the entries S
Listings(S) ==
  {l \in [1..Cardinality(S) -> S] : \A i, j \in 1..Cardinality(S) : l[i] = l[j] => i = j}

\* what fs.readdirSync(LOG_DIR) can do: throw (directory not readable, or gone), or return
\* the entries it finds, in the directory's order. The directory belongs to the host as
\* well: by the time it is read, entries may have been removed.
ReaddirOutcomes(files) ==
  {[err |-> TRUE, names |-> <<>>]}
    \cup {[err |-> FALSE, names |-> l] : l \in UNION {Listings(S) : S \in SUBSET Entries(files)}}

\* file.startsWith('access-') && file.endsWith('.log')
catalogFilter(file) == startsWith(file, <<"access-">>) /\ endsWith(file, <<".log">>)

RECURSIVE replaceFirst(_, _)
\* s.replace(pattern, ''): the first occurrence goes
replaceFirst(s, pattern) ==
  IF s = <<>> THEN <<>>
  ELSE IF Head(s) = pattern THEN Tail(s)
  ELSE <<Head(s)>> \o replaceFirst(Tail(s), pattern)

\* a.replace('access-', '').replace('.log', '')
dateOf(file) == replaceFirst(replaceFirst(file, "access-"), ".log")

\* the characters of the chunks names are made of
Characters(chunk) ==
  CASE chunk = "2023-12-31" -> <<"2", "0", "2", "3", "-", "1", "2", "-", "3", "1">>
    [] chunk = "2024-01-08" -> <<"2", "0", "2", "4", "-", "0", "1", "-", "0", "8">>
    [] chunk = "2024-01-09" -> <<"2", "0", "2", "4", "-", "0", "1", "-", "0", "9">>
    [] chunk = "2024-01-10" -> <<"2", "0", "2", "4", "-", "0", "1", "-", "1", "0">>
    [] chunk = "backup" -> <<"b", "a", "c", "k", "u", "p">>
    [] chunk = "access-" -> <<"a", "c", "c", "e", "s", "s", "-">>
    [] chunk = "error-" -> <<"e", "r", "r", "o", "r", "-">>
    [] chunk = ".log" -> <<".", "l", "o", "g">>

RECURSIVE CharactersOf(_)
CharactersOf(chunks) ==
  IF chunks = <<>> THEN <<>> ELSE Characters(Head(chunks)) \o CharactersOf(Tail(chunks))

Digits == <<"0", "1", "2", "3", "4", "5", "6", "7", "8", "9">>
Letters == <<"a", "b", "c", "e", "g", "k", "l", "o", "p", "r", "s", "u">>
IndexIn(seq, x) == CHOOSE i \in 1..Len(seq) : seq[i] = x

\* the place of a character in the collation String.prototype.localeCompare uses:
\* punctuation, then digits, then letters
CollationWeight(ch) ==
  IF ch = "-" THEN 1
  ELSE IF ch = "." THEN 2
  ELSE IF \E i \in 1..Len(Digits) : Digits[i] = ch THEN 2 + IndexIn(Digits, ch)
  ELSE 2 + Len(Digits) + IndexIn(Letters, ch)

RECURSIVE localeCompare(_, _)
\* x.localeCompare(y): negative, zero or positive
localeCompare(x, y) ==
  IF x = <<>> THEN (IF y = <<>> THEN 0 ELSE -1)
  ELSE IF y = <<>> THEN 1
  ELSE IF CollationWeight(Head(x)) < CollationWeight(Head(y)) THEN -1
  ELSE IF CollationWeight(Head(x)) > CollationWeight(Head(y)) THEN 1
  ELSE localeCompare(Tail(x), Tail(y))

\* the comparator with its operands swapped: oldest first
compareFiles_ascending(a, b) ==
  localeCompare(CharactersOf(dateOf(a)), CharactersOf(dateOf(b)))

\* (a, b) => dateB.localeCompare(dateA)
compareFiles(a, b) ==
  localeCompare(CharactersOf(dateOf(b)), CharactersOf(dateOf(a)))

RECURSIVE insertSorted(_, _)
\* x goes before the first element it has to precede
insertSorted(sorted, x) ==
  IF sorted = <<>> THEN <<x>>
  ELSE IF compareFiles(x, Head(sorted)) < 0 THEN <<x>> \o sorted
  ELSE <<Head(sorted)>> \o insertSorted(Tail(sorted), x)

RECURSIVE sortFiles(_)
\* Array.prototype.sort with compareFiles: a stable sort
sortFiles(files) ==
  IF files = <<>> THEN <<>>
  ELSE insertSorted(sortFiles(SubSeq(files, 1, Len(files) - 1)), files[Len(files)])

\* catalogBody that reports an empty list as a failure
catalogBody_emptyIsError(out) ==
  IF out.err \/ SelectSeq(out.names, catalogFilter) = <<>>
    THEN JSONstringify(JObj(<<"success", "message">>,
                            <<JBool(FALSE), JStr("cannot list the log files")>>), FALSE)
  ELSE JSONstringify(JObj(<<"success", "files">>,
                          <<JBool(TRUE), JArr([i \in 1..Len(out.names) |-> JStr(Join(out.names[i]))])>>),
                     FALSE)

\* app.get('/api/logs/files'): the body res.json sends
catalogBody(out) ==
  IF out.err
    THEN JSONstringify(JObj(<<"success", "message">>,
                            <<JBool(FALSE), JStr("cannot list the log files")>>), FALSE)
  ELSE LET Send(files) ==
             JSONstringify(JObj(<<"success", "files">>,
                                <<JBool(TRUE), JArr([i \in 1..Len(files) |-> JStr(Join(files[i]))])>>),
                           FALSE)
       IN Send(sortFiles(SelectSeq(out.names, catalogFilter)))

\* one GET /api/logs/files; dir is what readdirSync did
GetLogCatalog ==
  /\ served < MaxLogRequests
  /\ \E t2 \in LaterReads, appendOk \in BOOLEAN :
       /\ Route(CatalogRequest) = "logCatalog"
       /\ \E m \in {Middleware(CatalogRequest, now, t2, appendOk)} :
            /\ logFiles' = m.files
            /\ IF m.err THEN last' = errorMiddleware(CatalogRequest, m)
               ELSE \E out \in ReaddirOutcomes(m.files) :
                      last' = Answered(CatalogRequest, m, "logCatalog", 200, catalogBody(out), {})
                                @@ [dir |-> out]
       /\ now' = t2
  /\ served' = served + 1
  /\ UNCHANGED <<dataFile, pending, lastReplace>>
  /\ UNCHANGED syncVars
  /\ UNCHANGED clientVars

\* entries the log directory may hold at start: logs of earlier days and files the
\* operator put there
OldEntries ==
  {<<"access-", "2024-01-08", ".log">>, <<"access-", "2023-12-31", ".log">>,
   <<"access-", "backup", ".log">>, <<"error-", "2024-01-09", ".log">>}

\* the Log Catalog under its requests
InitCatalog ==
  /\ \E S \in SUBSET OldEntries :
       /\ Cardinality(S) <= MaxOldEntries
       /\ logFiles = [p \in {pathJoin(LOG_DIR, name) : name \in S} |-> <<>>]
  /\ dataFile = [st |-> "ok", text |-> <<"[", "]">>]
  /\ pending = <<>>
  /\ last = [some |-> FALSE]
  /\ lastReplace = [some |-> FALSE]
  /\ served = 0
  /\ now = ClockStart /\ SyncIdle /\ ClientIdle
NextCatalog == GetLogCatalog \/ Tick
SpecCatalog == InitCatalog /\ [][NextCatalog]_vars

----------------------------------------------------------------------------
(* Claims about the Log Catalog *)

\* the files of an answer of the Log Catalog, as names
ListedNames(a) ==
  [i \in 1..Len(Field(JSONparse(a.body).val, "files").a) |->
     CHOOSE name \in {a.dir.names[j] : j \in 1..Len(a.dir.names)} :
       Join(name) = Field(JSONparse(a.body).val, "files").a[i].s]

IsDigit(ch) == \E i \in 1..Len(Digits) : Digits[i] = ch
\* YYYY-MM-DD
IsFileDate(cs) ==
  /\ Len(cs) = 10
  /\ \A i \in {1, 2, 3, 4, 6, 7, 9, 10} : IsDigit(cs[i])
  /\ cs[5] = "-" /\ cs[8] = "-"
\* access-<YYYY-MM-DD>.log
IsDatedLogName(name) ==
  /\ Len(name) >= 2 /\ name[1] = "access-" /\ name[Len(name)] = ".log"
  /\ IsFileDate(CharactersOf(SubSeq(name, 2, Len(name) - 1)))
DigitAt(cs, i) == IndexIn(Digits, cs[i]) - 1
\* the day a dated name is about, as the number YYYYMMDD
DayNumber(name) ==
  LET Num(cs) == DigitAt(cs, 1) * 10000000 + DigitAt(cs, 2) * 1000000 + DigitAt(cs, 3) * 100000
                   + DigitAt(cs, 4) * 10000 + DigitAt(cs, 6) * 1000 + DigitAt(cs, 7) * 100
                   + DigitAt(cs, 9) * 10 + DigitAt(cs, 10)
  IN Num(CharactersOf(SubSeq(name, 2, Len(name) - 1)))
CatalogListed(a) == a.some /\ a.route = "logCatalog" /\ ~a.dir.err

\* C15: the Log Catalog returns exactly the entries of the log directory whose name begins
\* with access- and ends with .log, each once, and any two listed names of the shape
\* access-<YYYY-MM-DD>.log stand in the order of their dates, the later date first.
C15_ListsAccessLogsNewestFirst ==
  CatalogListed(last) =>
    \A listed \in {ListedNames(last)} :
      /\ {listed[i] : i \in 1..Len(listed)}
           = {name \in {last.dir.names[j] : j \in 1..Len(last.dir.names)} :
                startsWith(name, <<"access-">>) /\ endsWith(name, <<".log">>)}
      /\ \A i, j \in 1..Len(listed) : listed[i] = listed[j] => i = j
      /\ \A i, j \in 1..Len(listed) :
           (i < j /\ IsDatedLogName(listed[i]) /\ IsDatedLogName(listed[j]))
             => DayNumber(listed[i]) >= DayNumber(listed[j])

\* the directory handed out an older log before a newer one and a file that is not a daily
\* log; the answer lists all three
C15_Witness ==
  /\ CatalogListed(last)
  /\ \E i, j \in 1..Len(last.dir.names) :
       /\ i < j
       /\ IsDatedLogName(last.dir.names[i]) /\ IsDatedLogName(last.dir.names[j])
       /\ DayNumber(last.dir.names[i]) < DayNumber(last.dir.names[j])
  /\ \E i \in 1..Len(last.dir.names) : last.dir.names[i] = <<"access-", "backup", ".log">>
  /\ Len(ListedNames(last)) = 3

\* C15 as stated: the Log Catalog returns exactly the entries of the log directory whose name
\* has the shape access-<YYYY-MM-DD>.log, and of every two adjacent names in the result the
\* date of the first is not earlier than the date of the second.
C15_ListsDatedLogsOnly ==
  CatalogListed(last) =>
    \A listed \in {ListedNames(last)} :
      /\ {listed[i] : i \in 1..Len(listed)}
           = {name \in {last.dir.names[j] : j \in 1..Len(last.dir.names)} : IsDatedLogName(name)}
      /\ \A i \in 1..(Len(listed) - 1) : DayNumber(listed[i]) >= DayNumber(listed[i + 1])

\* C16: when the log directory holds no file the Log Catalog lists, the answer is success:
\* true with an empty list; the answer is success: false exactly when reading the directory
\* failed.
C16_EmptyIsNotAnError ==
  (last.some /\ last.route = "logCatalog") =>
    \A r \in {JSONparse(last.body)} :
      /\ r.ok /\ HasField(r.val, "success")
      /\ Field(r.val, "success") = JBool(~last.dir.err)
      /\ (~last.dir.err /\ \A i \in 1..Len(last.dir.names) : ~catalogFilter(last.dir.names[i]))
           => (HasField(r.val, "files") /\ Field(r.val, "files") = JArr(<<>>))

\* the directory was read and held nothing to list
C16_Witness ==
  /\ CatalogListed(last)
  /\ \A i \in 1..Len(last.dir.names) : ~catalogFilter(last.dir.names[i])
  /\ last.body = <<"{", "\"", "success", "\"", ":", "true", ",", "\"", "files", "\"", ":", "[", "]", "}">>

----------------------------------------------------------------------------
(* The log viewer (public/logs/index.html): texts are sequences of characters *)

RECURSIVE split(_, _)
\* text.split(sep): the pieces between the separators
split(text, sep) ==
  IF \A i \in 1..Len(text) : text[i] # sep THEN <<text>>
  ELSE LET Cut(i) == <<SubSeq(text, 1, i - 1)>> \o split(SubSeq(text, i + 1, Len(text)), sep)
       IN Cut(CHOOSE i \in 1..Len(text) : text[i] = sep /\ \A j \in 1..(i - 1) : text[j] # sep)

WhiteSpace == {" ", "\t", "\r", "\n"}
RECURSIVE trimStart(_)
trimStart(line) ==
  IF line # <<>> /\ Head(line) \in WhiteSpace THEN trimStart(Tail(line)) ELSE line
RECURSIVE trimEnd(_)
trimEnd(line) ==
  IF line # <<>> /\ line[Len(line)] \in WhiteSpace THEN trimEnd(SubSeq(line, 1, Len(line) - 1))
  ELSE line
\* line.trim()
trim(line) == trimEnd(trimStart(line))

\* a filter that keeps every line that is not the empty string
keepLine_nonEmpty(line) == line # <<>>

\* .filter(line => line.trim())
keepLine(line) == trim(line) # <<>>

\* \d and \w
IsDigitAt(line, i) == i \in 1..Len(line) /\ \E d \in 1..Len(Digits) : Digits[d] = line[i]
WordLetters == {"a", "b", "c", "x", "_"}
IsWordAt(line, i) == IsDigitAt(line, i) \/ (i \in 1..Len(line) /\ line[i] \in WordLetters)
\* \b in front of position i
boundaryAt(line, i) == IsWordAt(line, i - 1) # IsWordAt(line, i)

\* the most digits \d{1,3} can take at i
greedyDigits(line, i) ==
  IF ~IsDigitAt(line, i) THEN 0
  ELSE IF ~IsDigitAt(line, i + 1) THEN 1
  ELSE IF ~IsDigitAt(line, i + 2) THEN 2
  ELSE 3

Largest(S) == CHOOSE k \in S : \A l \in S : l <= k

\* (?:\d{1,3}\.) at i: the position behind it, 0 when it does not match
groupAt(line, i) ==
  LET Takes(ks) == IF ks = {} THEN 0 ELSE i + Largest(ks) + 1
  IN Takes({k \in 1..greedyDigits(line, i) : i + k <= Len(line) /\ line[i + k] = "."})

\* \d{1,3}\b at i: the position behind it, 0 when it does not match
lastGroupAt(line, i) ==
  LET Takes(ks) == IF ks = {} THEN 0 ELSE i + Largest(ks)
  IN Takes({k \in 1..greedyDigits(line, i) : boundaryAt(line, i + k)})

\* /\b(?:\d{1,3}\.){3}\d{1,3}\b/ at i: the position behind the match, 0 when there is none
ipRegexAt(line, i) ==
  LET Fourth(g) == IF g = 0 THEN 0 ELSE lastGroupAt(line, g)
      Third(g) == IF g = 0 THEN 0 ELSE Fourth(groupAt(line, g))
      Second(g) == IF g = 0 THEN 0 ELSE Third(groupAt(line, g))
  IN IF ~boundaryAt(line, i) THEN 0 ELSE Second(groupAt(line, i))

RECURSIVE matchIpRegex(_, _)
\* line.match(ipRegex) from position i on: the matches, left to right (<<>> for null)
matchIpRegex(line, i) ==
  IF i > Len(line) THEN <<>>
  ELSE LET Found(end) ==
             IF end = 0 THEN matchIpRegex(line, i + 1)
             ELSE <<SubSeq(line, i, end - 1)>> \o matchIpRegex(line, end)
       IN Found(ipRegexAt(line, i))

\* ipCounts[ip] = (ipCounts[ip] || 0) + 1; an object keeps its keys in the order they came
countIp(ipCounts, ip) ==
  IF \E k \in 1..Len(ipCounts) : ipCounts[k].ip = ip
    THEN [k \in 1..Len(ipCounts) |->
            IF ipCounts[k].ip = ip THEN [ip |-> ip, count |-> ipCounts[k].count + 1]
            ELSE ipCounts[k]]
  ELSE Append(ipCounts, [ip |-> ip, count |-> 1])

RECURSIVE countLines(_, _, _)
\* lines.forEach(line => { const matches = line.match(ipRegex); if (matches && ...) ... })
countLines(lines, i, ipCounts) ==
  IF i > Len(lines) THEN ipCounts
  ELSE LET Counted(matches) ==
             IF Len(matches) > 0 THEN countLines(lines, i + 1, countIp(ipCounts, matches[1]))
             ELSE countLines(lines, i + 1, ipCounts)
       IN Counted(matchIpRegex(lines[i], 1))

\* parseAccessLogStats(logText): the new ipStats
parseAccessLogStats(logText) ==
  LET Stats(lines, ipCounts) ==
        [total |-> Len(lines), unique |-> Len(ipCounts), ipCounts |-> ipCounts]
      Parsed(lines) == Stats(lines, countLines(lines, 1, <<>>))
  IN Parsed(SelectSeq(split(logText, "\n"), keepLine))

TopN == 8

\* the comparator with its operands swapped: rarest first
compareCounts_ascending(a, b) == a.count - b.count

\* (a, b) => b[1] - a[1]
compareCounts(a, b) == b.count - a.count

RECURSIVE insertByCount(_, _)
insertByCount(sorted, x) ==
  IF sorted = <<>> THEN <<x>>
  ELSE IF compareCounts(x, Head(sorted)) < 0 THEN <<x>> \o sorted
  ELSE <<Head(sorted)>> \o insertByCount(Tail(sorted), x)

RECURSIVE sortByCount(_)
\* Array.prototype.sort with compareCounts: a stable sort
sortByCount(entries) ==
  IF entries = <<>> THEN <<>>
  ELSE insertByCount(sortByCount(SubSeq(entries, 1, Len(entries) - 1)), entries[Len(entries)])

\* array.slice(0, n)
slice(array, n) == SubSeq(array, 1, IF Len(array) < n THEN Len(array) ELSE n)

\* updateStatsPanel(): the new content of the Top IP panel
updateStatsPanel(stats) ==
  LET Shown(sortedIps) ==
        IF Len(sortedIps) = 0 THEN [kind |-> "message", items |-> <<>>]
        ELSE [kind |-> "items", items |-> sortedIps]
  IN Shown(slice(sortByCount(stats.ipCounts), TopN))

\* new RegExp(f) at i: a dot stands for any character but a line break, every other
\* character of the filters of this model for itself
regExpAt(line, i, f) ==
  /\ i + Len(f) - 1 <= Len(line)
  /\ \A k \in 1..Len(f) : IF f[k] = "." THEN line[i + k - 1] # "\n" ELSE line[i + k - 1] = f[k]

SpanOpen == "<span class=\"highlight-ip\">"
SpanClose == "</span>"

RECURSIVE replaceAll(_, _, _)
\* line.replace(new RegExp(f, 'g'), `<span class="highlight-ip">${f}</span>`) from i on
replaceAll(line, i, f) ==
  IF i > Len(line) THEN <<>>
  ELSE IF regExpAt(line, i, f) THEN <<SpanOpen>> \o f \o <<SpanClose>> \o replaceAll(line, i + Len(f), f)
  ELSE <<line[i]>> \o replaceAll(line, i + 1, f)

RECURSIVE filteredHtml(_, _, _)
\* lines.forEach(line => { if (line.includes(f)) filteredHtml += highlightedLine + '\n' })
filteredHtml(lines, i, f) ==
  IF i > Len(lines) THEN <<>>
  ELSE IF includes(lines[i], f) THEN replaceAll(lines[i], 1, f) \o <<"\n">> \o filteredHtml(lines, i + 1, f)
  ELSE filteredHtml(lines, i + 1, f)

\* filterLogsByIp(): the new content of the log panel
filterLogsByIp(raw, f, content) ==
  IF raw = <<>> THEN content
  ELSE IF f = <<>> THEN [kind |-> "text", data |-> raw]
  ELSE LET Shown(html) ==
             IF html = <<>> THEN [kind |-> "message", data |-> <<"no log of this IP">>]
             ELSE [kind |-> "html", data |-> html]
       IN Shown(filteredHtml(split(raw, "\n"), 1, f))

\* the file the viewer shows
ViewedFile == pathJoin(LOG_DIR, DatedName)

\* loadLogsByFilename(filename): the fetch is answered with the file's text, or fails
LoadLogs ==
  /\ \/ \E text \in {Flatten(logFiles[ViewedFile])}, stats \in {parseAccessLogStats(Flatten(logFiles[ViewedFile]))} :
          viewer' = [viewer EXCEPT
                       !.rawLogData = text,
                       !.ipStats = stats,
                       !.topIpList = updateStatsPanel(stats),
                       !.logContent =
                          IF viewer.currentFilterIp # <<>>
                            THEN filterLogsByIp(text, viewer.currentFilterIp,
                                                [kind |-> "message", data |-> <<"loading">>])
                          ELSE [kind |-> "text", data |-> text]]
     \/ viewer' = [viewer EXCEPT !.logContent = [kind |-> "message", data |-> <<"load failed">>],
                                 !.topIpList = [kind |-> "message", items |-> <<>>]]
  /\ UNCHANGED sess
  /\ UNCHANGED serverVars
  /\ UNCHANGED syncVars

IpA == <<"1", ".", "2", ".", "3", ".", "4">>
IpB == <<"5", ".", "6", ".", "7", ".", "8">>
\* what the operator types into the search field
FilterInputs ==
  {<<>>, IpA, IpB, <<" ">> \o IpB \o <<" ">>, <<"5">>, <<" ">>}

\* the input event of the search field
TypeFilter ==
  /\ \E value \in FilterInputs :
       viewer' = [viewer EXCEPT
                    !.currentFilterIp = trim(value),
                    !.logContent = filterLogsByIp(viewer.rawLogData, trim(value), viewer.logContent)]
  /\ UNCHANGED sess
  /\ UNCHANGED serverVars
  /\ UNCHANGED syncVars

\* a click on an entry of the Top IP panel
ClickIpItem ==
  /\ viewer.topIpList.kind = "items"
  /\ \E k \in 1..Len(viewer.topIpList.items) :
       viewer' = [viewer EXCEPT
                    !.currentFilterIp = viewer.topIpList.items[k].ip,
                    !.logContent = filterLogsByIp(viewer.rawLogData, viewer.topIpList.items[k].ip,
                                                  viewer.logContent)]
  /\ UNCHANGED sess
  /\ UNCHANGED serverVars
  /\ UNCHANGED syncVars

\* a click on the clear button
ClearFilter ==
  /\ viewer' = [viewer EXCEPT
                  !.currentFilterIp = <<>>,
                  !.logContent = IF viewer.rawLogData # <<>>
                                   THEN [kind |-> "text", data |-> viewer.rawLogData]
                                 ELSE viewer.logContent]
  /\ UNCHANGED sess
  /\ UNCHANGED serverVars
  /\ UNCHANGED syncVars

\* the lines of the log texts
Decoy == <<"5", "a", "6", "b", "7", "c", "8">>
LogLines ==
  {IpA, IpB, IpB \o <<" ">> \o Decoy, Decoy, <<" ">>, <<>>, IpA \o <<" ">> \o IpB, <<"x">> \o IpA}
Quad(d) == <<Digits[d + 1], ".", Digits[d + 1], ".", Digits[d + 1], ".", Digits[d + 1]>>
\* three requests, the last from another address; an address seen later that came more
\* often; a blank line and a line without an address; more addresses than the Top IP
\* panel shows
NamedTexts ==
  {<<IpA, IpA, IpB, <<>>>>, <<IpB, IpA, IpA>>, <<IpA, <<" ">>, Decoy>>,
   [i \in 1..(TopN + 1) |-> Quad(i)],
   [i \in 1..(TopN + 2) |-> IF i = TopN + 2 THEN Quad(TopN + 1) ELSE Quad(i)]}
LogTexts == UNION {[1..n -> LogLines] : n \in 1..MaxLines} \cup NamedTexts
\* the lines as they stand in the file: every line but the last ends in a line break
FileLines(lines) ==
  [i \in 1..Len(lines) |-> IF i < Len(lines) THEN lines[i] \o <<"\n">> ELSE lines[i]]

\* the log viewer on a log file
InitViewer ==
  /\ \E lines \in LogTexts : logFiles = (ViewedFile :> FileLines(lines))
  /\ dataFile = [st |-> "ok", text |-> <<"[", "]">>]
  /\ pending = <<>>
  /\ last = [some |-> FALSE]
  /\ lastReplace = [some |-> FALSE]
  /\ served = 0
  /\ now = ClockStart /\ SyncIdle /\ ClientIdle
NextViewer == LoadLogs \/ TypeFilter \/ ClickIpItem \/ ClearFilter
SpecViewer == InitViewer /\ [][NextViewer]_vars

----------------------------------------------------------------------------
(* Claims about the Log Analyzer *)

\* the lines of the text the viewer holds
RawLines == split(viewer.rawLogData, "\n")

\* four groups of one to three digits, separated by dots
IsDottedQuad(token) ==
  /\ \A i \in 1..Len(token) : token[i] = "." \/ IsDigitAt(token, i)
  /\ \A groups \in {split(token, ".")} :
       Len(groups) = 4 /\ \A g \in 1..4 : Len(groups[g]) \in 1..3

\* line[i..j] is a dotted-quad token: it has the shape and no letter, digit or underscore
\* stands next to it
IsTokenAt(line, i, j) ==
  /\ 1 <= i /\ i <= j /\ j <= Len(line)
  /\ IsDottedQuad(SubSeq(line, i, j))
  /\ ~IsWordAt(line, i - 1) /\ ~IsWordAt(line, j + 1)
HasToken(line) == \E i, j \in 1..Len(line) : IsTokenAt(line, i, j)
FirstToken(line) ==
  LET Start(i) == SubSeq(line, i, CHOOSE j \in 1..Len(line) : IsTokenAt(line, i, j))
  IN Start(CHOOSE i \in 1..Len(line) :
             /\ \E j \in 1..Len(line) : IsTokenAt(line, i, j)
             /\ \A h \in 1..(i - 1), j \in 1..Len(line) : ~IsTokenAt(line, h, j))

\* the lines that count: not empty once white space at both ends is taken away
CountedLines(lines) ==
  {i \in 1..Len(lines) : \E k \in 1..Len(lines[i]) : lines[i][k] \notin WhiteSpace}
\* the IP tokens observed, and the lines each stands first in
ObservedIps(lines) == {FirstToken(lines[i]) : i \in {c \in CountedLines(lines) : HasToken(lines[c])}}
LinesOf(lines, ip) == {i \in CountedLines(lines) : HasToken(lines[i]) /\ FirstToken(lines[i]) = ip}
CountOf(stats, ip) ==
  IF \E k \in 1..Len(stats.ipCounts) : stats.ipCounts[k].ip = ip
    THEN stats.ipCounts[CHOOSE k \in 1..Len(stats.ipCounts) : stats.ipCounts[k].ip = ip].count
  ELSE 0
RECURSIVE SumCounts(_)
SumCounts(ipCounts) == IF ipCounts = <<>> THEN 0 ELSE Head(ipCounts).count + SumCounts(Tail(ipCounts))

\* what C17 says of the counts per IP, of unique and of the sum of the counts
CountsAgree(lines, stats) ==
  /\ \A k \in 1..Len(stats.ipCounts) : stats.ipCounts[k].ip \in ObservedIps(lines)
  /\ \A k, l \in 1..Len(stats.ipCounts) : stats.ipCounts[k].ip = stats.ipCounts[l].ip => k = l
  /\ \A ip \in ObservedIps(lines) : CountOf(stats, ip) = Cardinality(LinesOf(lines, ip))
  /\ stats.unique = Cardinality(ObservedIps(lines))
  /\ SumCounts(stats.ipCounts) <= stats.total

\* C17: for every raw log text, total is the number of lines that are not blank (not empty
\* after trimming white space); the count of an IP token is the number of such lines whose
\* first dotted-quad token it is; unique is the number of distinct IP tokens; a line without
\* an IP adds 1 to total and to no count, so the counts sum to at most total.
C17_StatsCountNonBlankLines ==
  /\ viewer.ipStats.total = Cardinality(CountedLines(RawLines))
  /\ CountsAgree(RawLines, viewer.ipStats)

\* a text with a blank line, a line without an IP and a line with one was analysed
C17_Witness ==
  /\ \E i, j, k \in 1..Len(RawLines) :
       /\ RawLines[i] = <<" ">>
       /\ RawLines[j] # <<>> /\ j \in CountedLines(RawLines) /\ ~HasToken(RawLines[j])
       /\ HasToken(RawLines[k])
  /\ viewer.ipStats.total = 2 /\ viewer.ipStats.unique = 1

\* C17 as stated: total is the number of non-empty lines, and the counts are as above.
C17_TotalIsNonEmptyLines ==
  /\ viewer.ipStats.total = Cardinality({i \in 1..Len(RawLines) : RawLines[i] # <<>>})
  /\ CountsAgree(RawLines, viewer.ipStats)

\* the first line an IP token stands first in
FirstSeen(lines, ip) == CHOOSE i \in LinesOf(lines, ip) : \A j \in LinesOf(lines, ip) : i <= j
\* ip comes before other in the ranking order: more often, or as often and first seen earlier
RanksBefore(lines, stats, ip, other) ==
  \/ CountOf(stats, ip) > CountOf(stats, other)
  \/ CountOf(stats, ip) = CountOf(stats, other) /\ FirstSeen(lines, ip) < FirstSeen(lines, other)
\* the entries of a ranking are observed IPs with their counts, in descending order of
\* count, equal counts in first-seen order
RankingOrdered(lines, stats, items) ==
  /\ \A k \in 1..Len(items) :
       items[k].ip \in ObservedIps(lines) /\ items[k].count = CountOf(stats, items[k].ip)
  /\ \A k, l \in 1..Len(items) : k < l => RanksBefore(lines, stats, items[k].ip, items[l].ip)

\* C18: the ranking lists observed IPs in descending order of count, IPs with equal counts
\* in the order in which they were first seen; it holds the first eight observed IPs in
\* that order, all of them when there are no more than eight.
C18_RankingTopEight ==
  viewer.topIpList.kind = "items" =>
    \A items \in {viewer.topIpList.items} :
      /\ RankingOrdered(RawLines, viewer.ipStats, items)
      /\ Len(items) = (IF Cardinality(ObservedIps(RawLines)) < TopN
                         THEN Cardinality(ObservedIps(RawLines)) ELSE TopN)
      /\ \A ip \in ObservedIps(RawLines) \ {items[k].ip : k \in 1..Len(items)} :
           \A k \in 1..Len(items) : RanksBefore(RawLines, viewer.ipStats, items[k].ip, ip)

\* ten lines from nine addresses, the last address twice: it leads the ranking, the others
\* follow in first-seen order, and one observed address is not in it
C18_Witness ==
  /\ viewer.topIpList.kind = "items"
  /\ viewer.ipStats.unique = TopN + 1
  /\ Len(viewer.topIpList.items) = TopN
  /\ viewer.topIpList.items[1] = [ip |-> Quad(TopN + 1), count |-> 2]
  /\ viewer.topIpList.items[2] = [ip |-> Quad(1), count |-> 1]

\* C18 as stated: descending order of count, equal counts in first-seen order, and every
\* observed IP appears in the ranking.
C18_RankingListsEveryIp ==
  viewer.topIpList.kind = "items" =>
    /\ RankingOrdered(RawLines, viewer.ipStats, viewer.topIpList.items)
    /\ \A ip \in ObservedIps(RawLines) :
         \E k \in 1..Len(viewer.topIpList.items) : viewer.topIpList.items[k].ip = ip

RECURSIVE MarkLiteral(_, _, _)
\* the line from i on with the literal occurrences of f marked, left to right
MarkLiteral(line, i, f) ==
  IF i > Len(line) THEN <<>>
  ELSE IF i + Len(f) - 1 <= Len(line) /\ SubSeq(line, i, i + Len(f) - 1) = f
    THEN <<SpanOpen>> \o f \o <<SpanClose>> \o MarkLiteral(line, i + Len(f), f)
  ELSE <<line[i]>> \o MarkLiteral(line, i + 1, f)
RECURSIVE LiteralFilter(_, _, _)
\* the lines that contain f, in their order, each with its occurrences of f marked
LiteralFilter(lines, i, f) ==
  IF i > Len(lines) THEN <<>>
  ELSE IF includes(lines[i], f) THEN MarkLiteral(lines[i], 1, f) \o <<"\n">> \o LiteralFilter(lines, i + 1, f)
  ELSE LiteralFilter(lines, i + 1, f)

\* C19: filtering by a non-empty f is a literal match for selection and for marking: the
\* output holds exactly the lines that contain f, in their order, and in each of them
\* exactly the occurrences of f are marked, the rest of the line unchanged.
C19_FilterMarksLiterally ==
  viewer.logContent.kind = "html" =>
    viewer.logContent.data = LiteralFilter(RawLines, 1, viewer.currentFilterIp)

----------------------------------------------------------------------------
(* Claims about overlapping dashboard sessions *)

\* the Card Document, as a Card sequence (<<>> when the file does not hold one)
StoredCards ==
  IF dataFile.st = "ok" /\ JSONparse(dataFile.text).ok /\ JSONparse(dataFile.text).val.t = "arr"
    THEN JsonToCards(JSONparse(dataFile.text).val) ELSE <<>>
HasFormFields(card) == card.title = FormTitle /\ card.url = FormUrl /\ card.color = FormColor
\* the handler of session s changes something in the collection it loaded
Effective(s) ==
  \A cards \in {JsonToCards(sess[s].loaded.val)} :
    \/ sess[s].op = "add"
    \/ sess[s].op = "edit"
         /\ \E i \in 1..Len(cards) : cards[i].id = sess[s].id /\ ~HasFormFields(cards[i])
    \/ sess[s].op = "delete" /\ \E i \in 1..Len(cards) : cards[i].id = sess[s].id
\* the collection doc holds the change of session s
Shows(doc, s) ==
  \A cards \in {JsonToCards(sess[s].loaded.val)} :
    \/ sess[s].op = "add"
         /\ \E i \in 1..Len(doc) :
              HasFormFields(doc[i]) /\ \A j \in 1..Len(cards) : cards[j].id # doc[i].id
    \/ sess[s].op = "edit"
         /\ \E i \in 1..Len(doc) : doc[i].id = sess[s].id /\ HasFormFields(doc[i])
    \/ sess[s].op = "delete" /\ \A i \in 1..Len(doc) : doc[i].id # sess[s].id
\* s and t each loaded, changed and replaced, both replaces were answered success: true, both
\* had loaded the same collection, their changes differ, and the replace of s came last
Overlapped(s, t) ==
  /\ s # t
  /\ sess[s].loaded.some /\ sess[t].loaded.some
  /\ sess[s].posted.some /\ sess[t].posted.some
  /\ sess[s].posted.answer = SUCCESS(TRUE) /\ sess[t].posted.answer = SUCCESS(TRUE)
  /\ sess[s].loaded.val.t = "arr" /\ sess[s].loaded.val = sess[t].loaded.val
  /\ <<sess[s].op, sess[s].id>> # <<sess[t].op, sess[t].id>>
  /\ Effective(s) /\ Effective(t)
  /\ lastReplace.some /\ lastReplace.cards = sess[s].posted.cards

\* C21: when two sessions overlap (each loads, changes and replaces; both replaces report
\* success), the Card Document holds the change of the session whose replace came last and
\* not the change of the other: an update is lost, and such an interleaving exists.
C21_LostUpdate ==
  \A s, t \in Sessions :
    Overlapped(s, t) => (Shows(StoredCards, s) /\ ~Shows(StoredCards, t))

\* B deleted card 1 while A was adding a card to the collection it had loaded before; both
\* were answered success: true, and the stored collection holds A's card and card 1 again
C21_Witness ==
  /\ Overlapped("A", "B")
  /\ sess["A"].op = "add" /\ sess["B"].op = "delete" /\ sess["B"].id = 1
  /\ Len(StoredCards) = 3
  /\ \E i \in 1..3 : StoredCards[i].id = 1
  /\ served = 4

----------------------------------------------------------------------------
(* Claims about the Log Writer around midnight *)

\* the line's timestamp and the file's name are those of one instant of the clock, hence
\* of one calendar day at UTC+8
SameDay(file, line) ==
  \E t \in ClockStart..ClockEnd :
    /\ line[2] = getBeijingTimeString(t)
    /\ file = getLogFileName("access", t)

\* C22: every line stored in access-YYYY-MM-DD.log carries a timestamp whose date at UTC+8
\* is that YYYY-MM-DD, writes around midnight included.
C22_LinesStoredUnderTheirDate ==
  \A file \in DOMAIN logFiles :
    \A i \in 1..Len(logFiles[file]) : SameDay(file, logFiles[file][i])

----------------------------------------------------------------------------
(* Claims about deleting a displayed card *)

\* an entry of the collection is the entry of the displayed card: same title, same link
IsEntryOf(entry, shown) ==
  entry.title = shown.title /\ entry.url \in {shown.url, href(shown.url)}
RemoveAt(cards, k) == SubSeq(cards, 1, k - 1) \o SubSeq(cards, k + 1, Len(cards))

\* C23: a delete that was answered success: true has removed from the collection exactly the
\* entry of the card whose delete button was clicked, and nothing when the collection holds
\* no such entry; this also after the page left edit mode.
C23_DeleteRemovesDisplayedCard ==
  \A s \in Sessions :
    (/\ sess[s].pc = "reload" /\ sess[s].op = "delete"
     /\ sess[s].posted.some /\ sess[s].posted.answer = SUCCESS(TRUE)) =>
      \A cards \in {JsonToCards(sess[s].loaded.val)} :
        \E i \in 1..Len(sess[s].dom) :
          /\ sess[s].dom[i].id = sess[s].id
          /\ \/ \E k \in 1..Len(cards) :
                  /\ IsEntryOf(cards[k], sess[s].dom[i])
                  /\ sess[s].posted.cards = RemoveAt(cards, k)
             \/ /\ \A k \in 1..Len(cards) : ~IsEntryOf(cards[k], sess[s].dom[i])
                /\ sess[s].posted.cards = cards

----------------------------------------------------------------------------
(* Claims about the Log Reader's failures *)

\* the answer the Log Reader gives for a file that does not exist
MissingFileAnswer(a) == a.status = 404 /\ a.body = Text("log file not found")

\* C20: invalid name, missing file and I/O error are three distinct outcomes of the Log
\* Reader: a read that fails on a file that exists in the log directory is never answered
\* with the outcome of a missing file.
C20_IoErrorIsNotNotFound ==
  [][(/\ pending # <<>>
      /\ pending' = Tail(pending)
      /\ Head(pending).file \in DOMAIN logFiles) => ~MissingFileAnswer(last')]_vars

====
